---- MODULE Spec2Model ----
(***************************************************************************)
(* PlotaDados.py: load mpu_data.csv, derive the time axis and the          *)
(* acceleration magnitude, draw four charts, print statistics, show and    *)
(* save the figure; three except branches; usage instructions at the end.  *)
(*                                                                         *)
(* Units.  Every quantity is an integer at the resolution the script       *)
(* prints it with: Sample is a count, time is in milliseconds, AccelX/Y/Z  *)
(* and the magnitude are in 0.001 g (":.3f"), GyroX/Y/Z, Roll and Pitch    *)
(* are in 0.1 deg/s and 0.1 deg (":.1f"), the printed duration is in 0.1 s *)
(* and the printed sample rate is in 0.1 Hz (":.1f").                      *)
(***************************************************************************)
EXTENDS Integers, Sequences, FiniteSets, TLC

VARIABLES file, pc, data, time, accel_magnitude, axes, figOpen, stdout, png, exc

vars == <<file, pc, data, time, accel_magnitude, axes, figOpen, stdout, png, exc>>

(* ------------------------------ bounds -------------------------------- *)

\* most rows of an input table
MaxRows == 3
\* largest value of the first Sample
MaxStart == 1
\* most headers absent from an input table
MaxMissing == 2

(* --------------------------- program constants ------------------------ *)

\* line 14: 0.1 s per sample, in milliseconds
TimeStep == 100

\* line 96: the header the script expects, in the order it names it
Columns == <<"Sample", "AccelX", "AccelY", "AccelZ", "GyroX", "GyroY", "GyroZ", "Roll", "Pitch">>

ColumnSet == {Columns[i] : i \in 1..Len(Columns)}

\* a name that is not bound yet, and one that is
None == [kind |-> "None"]

Some(v) == [kind |-> "Some", val |-> v]

(* ------------------------------ inputs -------------------------------- *)

\* the measurements of one row (all but Sample), as the firmware logs them
RowSet ==
  { [AccelX |-> 0,    AccelY |-> 0,     AccelZ |-> 1000,
     GyroX  |-> 0,    GyroY  |-> 0,     GyroZ  |-> 0,    Roll |-> 0,    Pitch |-> 0],
    [AccelX |-> -600, AccelY |-> 800,   AccelZ |-> 0,
     GyroX  |-> 15,   GyroY  |-> -23,   GyroZ  |-> 4,    Roll |-> -450, Pitch |-> 123],
    [AccelX |-> 1000, AccelY |-> -1000, AccelZ |-> 1000,
     GyroX  |-> -2501, GyroY |-> 7,     GyroZ  |-> 1200, Roll |-> 900,  Pitch |-> -5] }

Tables == UNION {[1..n -> RowSet] : n \in 0..MaxRows}

Headers == {h \in SUBSET ColumnSet : Cardinality(ColumnSet \ h) <= MaxMissing}

Cell(rows, start, c, i) == IF c = "Sample" THEN start + (i - 1) ELSE rows[i][c]

\* what is on disk under the name mpu_data.csv
Files ==
  {[kind |-> "missing"], [kind |-> "empty"]}
  \cup {[kind |-> "table", n |-> Len(rows),
         col |-> [c \in h |-> [i \in 1..Len(rows) |-> Cell(rows, start, c, i)]]] :
          rows \in Tables, start \in 0..MaxStart, h \in Headers}

(* ----------------------------- exceptions ----------------------------- *)

\* Python's classes: every exception the script meets is an Exception
IsInstance(e, cls) == cls = "Exception" \/ e.type = cls

Raise(type, arg) ==
  /\ exc' = [kind |-> "Exc", type |-> type, arg |-> arg]
  /\ pc' = "except"

Msg(kind, val) == [kind |-> kind, val |-> val]

Init ==
  /\ file \in Files
  /\ pc = "read_csv"
  /\ data = None
  /\ time = None
  /\ accel_magnitude = None
  /\ axes = None
  /\ figOpen = FALSE
  /\ stdout = <<>>
  /\ png = None
  /\ exc = None

\* lines 10-11
ReadCsv ==
  /\ pc = "read_csv"
  /\ IF file.kind = "missing"
       THEN /\ Raise("FileNotFoundError", "mpu_data.csv")
            /\ UNCHANGED <<data, stdout>>
       ELSE IF file.kind = "empty"
       THEN /\ Raise("EmptyDataError", "No columns to parse from file")
            /\ UNCHANGED <<data, stdout>>
       ELSE /\ data' = [n |-> file.n, col |-> file.col]
            /\ stdout' = Append(stdout, Msg("DataLoaded", file.n))
            /\ pc' = "calc_time"
            /\ UNCHANGED exc
  /\ UNCHANGED <<file, time, accel_magnitude, axes, figOpen, png>>

(* ------------------------------ helpers ------------------------------- *)

\* data[c] for each c of cs in turn: the index of the first c that raises KeyError, or 0
FirstAbsent(d, cs) ==
  IF \E i \in 1..Len(cs) : cs[i] \notin DOMAIN d.col
    THEN CHOOSE i \in 1..Len(cs) :
           /\ cs[i] \notin DOMAIN d.col
           /\ \A j \in 1..(i - 1) : cs[j] \in DOMAIN d.col
    ELSE 0

\* mutant of CalcTimeAxis: the time of a row from its position, not its Sample
CalcTimeAxisByIndex(sample) == [i \in 1..Len(sample) |-> (i - 1) * TimeStep]

\* line 14: data['Sample'] * 0.1, in milliseconds
CalcTimeAxis(sample) == [i \in 1..Len(sample) |-> sample[i] * TimeStep]

\* lines 13-14
CalcTime ==
  /\ pc = "calc_time"
  /\ IF FirstAbsent(data, <<"Sample">>) # 0
       THEN /\ Raise("KeyError", "Sample")
            /\ UNCHANGED time
       ELSE /\ time' = Some(CalcTimeAxis(data.col["Sample"]))
            /\ pc' = "subplots"
            /\ UNCHANGED exc
  /\ UNCHANGED <<file, data, accel_magnitude, axes, figOpen, stdout, png>>

EmptyAxes == [lines |-> <<>>, title |-> ""]

\* lines 16-18: a 2x2 grid, axes[0,0], axes[0,1], axes[1,0], axes[1,1] as 1..4
Subplots ==
  /\ pc = "subplots"
  /\ axes' = Some([k \in 1..4 |-> EmptyAxes])
  /\ figOpen' = TRUE
  /\ pc' = "plot_accel"
  /\ UNCHANGED <<file, data, time, accel_magnitude, stdout, png, exc>>

Line(label, x, y) == [label |-> label, x |-> x, y |-> y]

\* the first n plot calls of a chart, one line per column of cs
PlotLines(d, t, cs, n) == [i \in 1..n |-> Line(cs[i], t, d.col[cs[i]])]

\* one chart: plot each column of cs against time, then title, labels, legend, grid
PlotChart(k, cs, title, next) ==
  LET a == FirstAbsent(data, cs) IN
  IF a # 0
    THEN /\ axes' = [axes EXCEPT !.val[k].lines = PlotLines(data, time.val, cs, a - 1)]
         /\ Raise("KeyError", cs[a])
    ELSE /\ axes' = [axes EXCEPT !.val[k] = [lines |-> PlotLines(data, time.val, cs, Len(cs)),
                                             title |-> title]]
         /\ pc' = next
         /\ UNCHANGED exc

\* mutant of PlotAccel: the three axes are plotted Z first
PlotAccelReversed ==
  /\ pc = "plot_accel"
  /\ PlotChart(1, <<"AccelZ", "AccelY", "AccelX">>, "Acceleration (g)", "plot_gyro")
  /\ UNCHANGED <<file, data, time, accel_magnitude, figOpen, stdout, png>>

\* lines 20-28
PlotAccel ==
  /\ pc = "plot_accel"
  /\ PlotChart(1, <<"AccelX", "AccelY", "AccelZ">>, "Acceleration (g)", "plot_gyro")
  /\ UNCHANGED <<file, data, time, accel_magnitude, figOpen, stdout, png>>

\* lines 30-38
PlotGyro ==
  /\ pc = "plot_gyro"
  /\ PlotChart(2, <<"GyroX", "GyroY", "GyroZ">>, "Gyroscope (deg/s)", "plot_angles")
  /\ UNCHANGED <<file, data, time, accel_magnitude, figOpen, stdout, png>>

\* lines 40-47
PlotAngles ==
  /\ pc = "plot_angles"
  /\ PlotChart(3, <<"Roll", "Pitch">>, "Orientation Angles (deg)", "calc_magnitude")
  /\ UNCHANGED <<file, data, time, accel_magnitude, figOpen, stdout, png>>

RECURSIVE SqrtBetween(_, _, _)
\* the largest m in lo..hi with m*m <= s, by bisection (lo*lo <= s < (hi+1)*(hi+1))
SqrtBetween(s, lo, hi) ==
  IF lo = hi THEN lo
  ELSE LET mid == (lo + hi + 1) \div 2 IN
       IF mid * mid <= s THEN SqrtBetween(s, mid, hi) ELSE SqrtBetween(s, lo, mid - 1)

RECURSIVE SqrtAbove(_, _)
\* a power of two h with h*h > s
SqrtAbove(s, h) == IF h * h > s THEN h ELSE SqrtAbove(s, 2 * h)

\* np.sqrt at the resolution of the model (0.001 g), for s in (0.001 g)^2
Sqrt(s) == SqrtBetween(s, 0, SqrtAbove(s, 1))

\* mutant of Magnitude: the Z axis is left out of the norm
MagnitudeXY(x, y, z) ==
  [i \in 1..Len(x) |-> Sqrt(x[i] * x[i] + y[i] * y[i])]

\* line 50: np.sqrt(data['AccelX']**2 + data['AccelY']**2 + data['AccelZ']**2)
Magnitude(x, y, z) ==
  [i \in 1..Len(x) |-> Sqrt(x[i] * x[i] + y[i] * y[i] + z[i] * z[i])]

\* line 50
CalcMagnitude ==
  /\ pc = "calc_magnitude"
  /\ LET cs == <<"AccelX", "AccelY", "AccelZ">>
         a  == FirstAbsent(data, cs) IN
     IF a # 0
       THEN /\ Raise("KeyError", cs[a])
            /\ UNCHANGED accel_magnitude
       ELSE /\ accel_magnitude' =
                 Some(Magnitude(data.col["AccelX"], data.col["AccelY"], data.col["AccelZ"]))
            /\ pc' = "plot_magnitude"
            /\ UNCHANGED exc
  /\ UNCHANGED <<file, data, time, axes, figOpen, stdout, png>>

\* line 52: the reference line at y = 1.0 g
OneG == 1000

\* mutant of PlotMagnitude: the statistics are skipped, the figure shown next
PlotMagnitudeThenShow ==
  /\ pc = "plot_magnitude"
  /\ axes' = [axes EXCEPT !.val[4] =
               [lines |-> <<Line("Magnitude", time.val, accel_magnitude.val),
                            Line("1g reference", <<>>, <<OneG>>)>>,
                title |-> "Acceleration Magnitude"]]
  /\ pc' = "show"
  /\ UNCHANGED <<file, data, time, accel_magnitude, figOpen, stdout, png, exc>>

\* mutant of PlotMagnitude: the figure is saved as soon as it is laid out
PlotMagnitudeSaves ==
  /\ pc = "plot_magnitude"
  /\ axes' = [axes EXCEPT !.val[4] =
               [lines |-> <<Line("Magnitude", time.val, accel_magnitude.val),
                            Line("1g reference", <<>>, <<OneG>>)>>,
                title |-> "Acceleration Magnitude"]]
  /\ png' = [kind |-> "Image", name |-> "mpu6050_analysis.png", charts |-> axes'.val]
  /\ stdout' = Append(stdout, Msg("PlotSaved", "mpu6050_analysis.png"))
  /\ pc' = "report_duration"
  /\ UNCHANGED <<file, data, time, accel_magnitude, figOpen, exc>>

\* lines 51-59
PlotMagnitude ==
  /\ pc = "plot_magnitude"
  /\ axes' = [axes EXCEPT !.val[4] =
               [lines |-> <<Line("Magnitude", time.val, accel_magnitude.val),
                            Line("1g reference", <<>>, <<OneG>>)>>,
                title |-> "Acceleration Magnitude"]]
  /\ pc' = "report_duration"
  /\ UNCHANGED <<file, data, time, accel_magnitude, figOpen, stdout, png, exc>>

(* ------------------------------ report -------------------------------- *)

Abs(x) == IF x < 0 THEN -x ELSE x

\* ":.1f" and ":.3f" of num/den (den > 0) in the printed unit: the nearest
\* integers; a tie may print either way, as the binary value of the float decides
Roundings(num, den) ==
  LET f == num \div den IN {q \in {f, f + 1} : 2 * Abs(q * den - num) <= den}

RECURSIVE ColMin(_)
\* Series.min()
ColMin(s) ==
  IF Len(s) = 1 THEN s[1]
  ELSE LET m == ColMin(Tail(s)) IN IF s[1] < m THEN s[1] ELSE m

RECURSIVE ColMax(_)
\* Series.max()
ColMax(s) ==
  IF Len(s) = 1 THEN s[1]
  ELSE LET m == ColMax(Tail(s)) IN IF s[1] > m THEN s[1] ELSE m

RECURSIVE ColSum(_)
ColSum(s) == IF s = <<>> THEN 0 ELSE s[1] + ColSum(Tail(s))

\* Series.mean() as the format prints it
ColMeans(s) == Roundings(ColSum(s), Len(s))

\* mutant of StatLines: every line reads the X axis of the accelerometer
StatLinesOfAccelX(d, c) ==
  {Msg("Stat", [col |-> c, min |-> ColMin(d.col["AccelX"]), max |-> ColMax(d.col["AccelX"]),
                avg |-> a]) :
     a \in ColMeans(d.col["AccelX"])}

\* the lines one statistics print call can produce for column c
StatLines(d, c) ==
  {Msg("Stat", [col |-> c, min |-> ColMin(d.col[c]), max |-> ColMax(d.col[c]), avg |-> a]) :
     a \in ColMeans(d.col[c])}

\* mutant of LastTime: time.iloc[0]
FirstTime(t) == t[1]

\* time.iloc[-1] in milliseconds
LastTime(t) == t[Len(t)]

\* line 62: ":.1f" of seconds, in tenths of a second
Durations(t) == Roundings(LastTime(t), 100)

\* line 63: len(data)/time.iloc[-1] in Hz, ":.1f", in tenths of a hertz;
\* a float division by 0.0 gives inf
SampleRates(n, t) ==
  IF LastTime(t) = 0
    THEN {[inf |-> TRUE, tenths |-> 0]}
    ELSE {[inf |-> FALSE, tenths |-> r] : r \in Roundings(n * 10000, LastTime(t))}

\* lines 61-63
ReportDuration ==
  /\ pc = "report_duration"
  /\ IF Len(time.val) = 0
       THEN /\ Raise("IndexError", "single positional indexer is out-of-bounds")
            /\ UNCHANGED stdout
       ELSE /\ \E dur \in Durations(time.val), rate \in SampleRates(data.n, time.val) :
                 stdout' = stdout \o <<Msg("Duration", dur), Msg("SampleRate", rate)>>
            /\ pc' = "report_accel"
            /\ UNCHANGED exc
  /\ UNCHANGED <<file, data, time, accel_magnitude, axes, figOpen, png>>

\* a header line and one statistics line per column of cs
ReportGroup(header, cs, next) ==
  LET a == FirstAbsent(data, cs) IN
  IF a # 0
    THEN /\ Raise("KeyError", cs[a])
         /\ UNCHANGED stdout
    ELSE /\ \E ls \in [1..Len(cs) -> UNION {StatLines(data, cs[i]) : i \in 1..Len(cs)}] :
              /\ \A i \in 1..Len(cs) : ls[i] \in StatLines(data, cs[i])
              /\ stdout' = stdout \o <<Msg("Header", header)>> \o ls
         /\ pc' = next
         /\ UNCHANGED exc

\* lines 65-68
ReportAccel ==
  /\ pc = "report_accel"
  /\ ReportGroup("Acceleration statistics (g):", <<"AccelX", "AccelY", "AccelZ">>,
                 "report_gyro")
  /\ UNCHANGED <<file, data, time, accel_magnitude, axes, figOpen, png>>

\* lines 70-73
ReportGyro ==
  /\ pc = "report_gyro"
  /\ ReportGroup("Gyroscope statistics (deg/s):", <<"GyroX", "GyroY", "GyroZ">>,
                 "report_angles")
  /\ UNCHANGED <<file, data, time, accel_magnitude, axes, figOpen, png>>

\* lines 75-77
ReportAngles ==
  /\ pc = "report_angles"
  /\ ReportGroup("Angle statistics (deg):", <<"Roll", "Pitch">>, "show")
  /\ UNCHANGED <<file, data, time, accel_magnitude, axes, figOpen, png>>

(* --------------------------- show and save ---------------------------- *)

\* line 80: plt.show() returns at once with the figure kept (a backend without
\* windows), or after the window is closed, which destroys the figure
Show ==
  /\ pc = "show"
  /\ \E closed \in BOOLEAN : figOpen' = ~closed
  /\ pc' = "savefig"
  /\ UNCHANGED <<file, data, time, accel_magnitude, axes, stdout, png, exc>>

\* plt.savefig saves pyplot's current figure: the one drawn, or a new blank one
CurrentFigure == IF figOpen THEN axes.val ELSE <<>>

\* lines 82-84
SaveFig ==
  /\ pc = "savefig"
  /\ png' = [kind |-> "Image", name |-> "mpu6050_analysis.png", charts |-> CurrentFigure]
  /\ stdout' = Append(stdout, Msg("PlotSaved", "mpu6050_analysis.png"))
  /\ pc' = "usage"
  /\ UNCHANGED <<file, data, time, accel_magnitude, axes, figOpen, exc>>

(* ------------------------------ handlers ------------------------------ *)

\* mutant of Handler: except Exception is listed first
HandlerGenericFirst(e) ==
  IF IsInstance(e, "Exception") THEN "Exception"
  ELSE IF IsInstance(e, "FileNotFoundError") THEN "FileNotFoundError"
  ELSE IF IsInstance(e, "KeyError") THEN "KeyError"
  ELSE "uncaught"

\* lines 86, 93, 98: the first except clause, in textual order, that matches
Handler(e) ==
  IF IsInstance(e, "FileNotFoundError") THEN "FileNotFoundError"
  ELSE IF IsInstance(e, "KeyError") THEN "KeyError"
  ELSE IF IsInstance(e, "Exception") THEN "Exception"
  ELSE "uncaught"

\* lines 86-91
ExceptFileNotFound ==
  /\ pc = "except"
  /\ Handler(exc) = "FileNotFoundError"
  /\ stdout' = stdout \o <<Msg("ErrFileNotFound", "mpu_data.csv"),
                           Msg("Help", "Make sure to: 1. 2. 3.")>>
  /\ exc' = None
  /\ pc' = "usage"
  /\ UNCHANGED <<file, data, time, accel_magnitude, axes, figOpen, png>>

\* lines 93-96
ExceptKeyError ==
  /\ pc = "except"
  /\ Handler(exc) = "KeyError"
  /\ stdout' = stdout \o <<Msg("ErrColumn", exc.arg),
                           Msg("Help", "Check if CSV has correct header:"),
                           Msg("Help", Columns)>>
  /\ exc' = None
  /\ pc' = "usage"
  /\ UNCHANGED <<file, data, time, accel_magnitude, axes, figOpen, png>>

\* mutant of ExceptException: the fallback prints instructions of its own
ExceptExceptionWithHelp ==
  /\ pc = "except"
  /\ Handler(exc) = "Exception"
  /\ stdout' = stdout \o <<Msg("ErrGeneric", exc.arg), Msg("Help", "Make sure to: 1. 2. 3.")>>
  /\ exc' = None
  /\ pc' = "usage"
  /\ UNCHANGED <<file, data, time, accel_magnitude, axes, figOpen, png>>

\* lines 98-99
ExceptException ==
  /\ pc = "except"
  /\ Handler(exc) = "Exception"
  /\ stdout' = Append(stdout, Msg("ErrGeneric", exc.arg))
  /\ exc' = None
  /\ pc' = "usage"
  /\ UNCHANGED <<file, data, time, accel_magnitude, axes, figOpen, png>>

\* lines 101-105
Usage ==
  /\ pc = "usage"
  /\ stdout' = Append(stdout, Msg("Usage", "USAGE INSTRUCTIONS: 1. 2. 3. 4."))
  /\ pc' = "done"
  /\ UNCHANGED <<file, data, time, accel_magnitude, axes, figOpen, png, exc>>

Next ==
  \/ ReadCsv
  \/ CalcTime
  \/ Subplots
  \/ PlotAccel
  \/ PlotGyro
  \/ PlotAngles
  \/ CalcMagnitude
  \/ PlotMagnitude
  \/ ReportDuration
  \/ ReportAccel
  \/ ReportGyro
  \/ ReportAngles
  \/ Show
  \/ SaveFig
  \/ ExceptFileNotFound
  \/ ExceptKeyError
  \/ ExceptException
  \/ Usage


Spec == Init /\ [][Next]_vars
(* ------------------------------ properties ---------------------------- *)

ErrorKinds == {"ErrFileNotFound", "ErrColumn", "ErrGeneric"}

IsError(m) == m.kind \in ErrorKinds

\* the error messages printed so far
Errors == SelectSeq(stdout, IsError)

Printed(kind) == \E i \in 1..Len(stdout) : stdout[i].kind = kind

Count(kind) == Cardinality({i \in 1..Len(stdout) : stdout[i].kind = kind})

\* the kinds of the messages printed after the error message
AfterError ==
  LET e == CHOOSE i \in 1..Len(stdout) : IsError(stdout[i]) IN
  [i \in 1..(Len(stdout) - e) |-> stdout[e + i].kind]

EndsWithUsage == stdout # <<>> /\ stdout[Len(stdout)].kind = "Usage"

Absent == IF file.kind = "table" THEN ColumnSet \ DOMAIN file.col ELSE {}

\* the absent column the script reaches first (lines 14, 21-23, 31-33, 41-42)
FirstAbsentColumn ==
  Columns[CHOOSE i \in 1..Len(Columns) :
            /\ Columns[i] \in Absent
            /\ \A j \in 1..(i - 1) : Columns[j] \notin Absent]

\* C1: a table that lacks any of the nine headers ends in the missing-column
\* branch, the message names the first absent column in access order, and the
\* run goes on to the usage instructions: no other error, nothing saved.
C1_MissingColumn ==
  (file.kind = "table" /\ Absent # {}) =>
    /\ pc # "savefig"
    /\ ~Printed("ErrFileNotFound") /\ ~Printed("ErrGeneric")
    /\ pc = "except" => Handler(exc) = "KeyError" /\ exc.arg = FirstAbsentColumn
    /\ pc \in {"usage", "done"} =>
         /\ Len(Errors) = 1
         /\ Errors[1].kind = "ErrColumn"
         /\ Errors[1].val = FirstAbsentColumn
    /\ pc = "done" => EndsWithUsage

C1_Witness ==
  /\ pc = "done"
  /\ file.kind = "table"
  /\ Absent = {"GyroZ", "AccelY"}
  /\ Len(Errors) = 1
  /\ Errors[1].kind = "ErrColumn"
  /\ Errors[1].val = "AccelY"
  /\ EndsWithUsage

\* C2: with no mpu_data.csv the run prints the file-not-found message and its
\* instructions, then the usage instructions, and does nothing else: nothing is
\* loaded, derived, drawn, reported or saved.
C2_FileNotFound ==
  file.kind = "missing" =>
    /\ data = None /\ time = None /\ accel_magnitude = None
    /\ axes = None /\ png = None
    /\ pc \in {"read_csv", "except", "usage", "done"}
    /\ pc = "except" => Handler(exc) = "FileNotFoundError"
    /\ pc = "usage" => [i \in 1..Len(stdout) |-> stdout[i].kind] = <<"ErrFileNotFound", "Help">>
    /\ pc = "done" =>
         [i \in 1..Len(stdout) |-> stdout[i].kind] = <<"ErrFileNotFound", "Help", "Usage">>

C2_Witness ==
  /\ pc = "done"
  /\ file.kind = "missing"
  /\ Printed("ErrFileNotFound")
  /\ EndsWithUsage

\* what C3 says of every branch but the remediation: a failure is of one kind,
\* it is caught (the exception is handled, then only the usage instructions
\* follow), and no stage runs after it
OneFailureCaught ==
  /\ Len(Errors) <= 1
  /\ pc = "except" =>
       /\ exc # None /\ Errors = <<>>
       /\ Handler(exc) \in {"FileNotFoundError", "KeyError", "Exception"}
  /\ pc # "except" => exc = None
  /\ Len(Errors) = 1 =>
       /\ pc \in {"usage", "done"}
       /\ ~Printed("PlotSaved")
       /\ \A i \in 1..Len(AfterError) : AfterError[i] \in {"Help", "Usage"}
       /\ pc = "done" => EndsWithUsage

\* C3 as stated: every one of the three branches prints remediation
\* instructions of its own after its message.
C3_Original ==
  /\ OneFailureCaught
  /\ Len(Errors) = 1 => AfterError # <<>> /\ AfterError[1] = "Help"

\* C3 as amended: the file-not-found and missing-column branches print their
\* message and remediation instructions; the unspecified branch prints the
\* exception's message alone, and its run is left with the usage instructions
\* that every run prints at the end.
C3_ErrorBranches ==
  /\ OneFailureCaught
  /\ Len(Errors) = 1 =>
       LET branch == IF Errors[1].kind = "ErrFileNotFound" THEN <<"Help">>
                     ELSE IF Errors[1].kind = "ErrColumn" THEN <<"Help", "Help">>
                     ELSE <<>> IN
       AfterError = IF pc = "done" THEN branch \o <<"Usage">> ELSE branch

C3_Witness ==
  /\ pc = "done"
  /\ Len(Errors) = 1
  /\ Errors[1].kind = "ErrGeneric"
  /\ AfterError = <<"Usage">>

IsStat(m) == m.kind \in {"Duration", "SampleRate", "Header", "Stat"}

\* a chart is drawn once its lines are plotted and its title, labels and legend set
Drawn(k) == axes # None /\ axes.val[k].title # ""

Touched(k) == axes # None /\ (axes.val[k].lines # <<>> \/ axes.val[k].title # "")

AllStatsPrinted == Count("Duration") = 1 /\ Count("SampleRate") = 1 /\ Count("Stat") = 8

\* what C4 says of the stages after Derive
PlotReportPersist ==
  /\ time # None => data # None
  /\ (\E k \in 1..4 : Touched(k)) => time # None
  /\ (\E i \in 1..Len(stdout) : IsStat(stdout[i])) => \A k \in 1..4 : Drawn(k)
  /\ png # None => AllStatsPrinted /\ Printed("PlotSaved")
  /\ Count("PlotSaved") <= 1
  /\ (pc = "done" /\ Errors = <<>>) =>
       /\ Count("PlotSaved") = 1
       /\ png # None /\ png.name = "mpu6050_analysis.png"

\* C4 as stated: Load, Derive, Plot, Report, Persist in strict order, so that
\* the time axis and the magnitude are both computed before any chart is drawn.
C4_Original ==
  /\ PlotReportPersist
  /\ (\E k \in 1..4 : Touched(k)) => accel_magnitude # None

\* C4 as amended: the time axis is computed before any chart; the magnitude
\* is computed after the first three charts are drawn and before the fourth;
\* all four charts are drawn before any statistic is printed and the figure is
\* saved once, after the statistics.
C4_StageOrder ==
  /\ PlotReportPersist
  /\ accel_magnitude # None => \A k \in 1..3 : Drawn(k)
  /\ Touched(4) => accel_magnitude # None

C4_Witness ==
  /\ pc = "done"
  /\ png # None
  /\ AllStatsPrinted
  /\ \A k \in 1..4 : Drawn(k)

\* C5: the time axis is as long as the Sample column and, in tenths of a
\* second, equals it row by row (time is kept in milliseconds).
C5_TimeAxis ==
  time # None =>
    /\ Len(time.val) = Len(file.col["Sample"])
    /\ \A i \in 1..Len(time.val) :
         /\ time.val[i] % 100 = 0
         /\ time.val[i] \div 100 = file.col["Sample"][i]

C5_Witness ==
  /\ time # None
  /\ Len(time.val) = 3
  /\ file.col["Sample"][1] = 1
  /\ time.val[3] = 300

\* C6: each magnitude is the non-negative square root of
\* AccelX^2 + AccelY^2 + AccelZ^2 of its row, to the resolution of the model
\* (m^2 <= sum < (m+1)^2, so exact where the sum is a perfect square),
\* negative components included,
\* and the loaded columns are as they were read.
C6_Magnitude ==
  accel_magnitude # None =>
    /\ Len(accel_magnitude.val) = file.n
    /\ \A i \in 1..file.n :
         LET m  == accel_magnitude.val[i]
             ss == file.col["AccelX"][i] * file.col["AccelX"][i]
                   + file.col["AccelY"][i] * file.col["AccelY"][i]
                   + file.col["AccelZ"][i] * file.col["AccelZ"][i] IN
         /\ m >= 0
         /\ m * m <= ss
         /\ ss < (m + 1) * (m + 1)
    /\ data = [n |-> file.n, col |-> file.col]

C6_Witness ==
  /\ accel_magnitude # None
  /\ \E i \in 1..file.n :
       /\ file.col["AccelX"][i] = -600
       /\ file.col["AccelY"][i] = 800
       /\ accel_magnitude.val[i] = 1000
  /\ \E i \in 1..file.n : accel_magnitude.val[i] = 1732

StatOf(c) == CHOOSE i \in 1..Len(stdout) : stdout[i].kind = "Stat" /\ stdout[i].val.col = c

\* the columns of the statistics lines printed so far, in order
StatColumns ==
  LET stats == SelectSeq(stdout, LAMBDA m : m.kind = "Stat") IN
  [i \in 1..Len(stats) |-> stats[i].val.col]

\* C7: each statistics line reports the minimum, the maximum and the mean (to
\* the printed digit) of its own column of the input, with min <= mean <= max,
\* and the eight lines are those of AccelX .. Pitch in that order.
C7_Statistics ==
  /\ \A k \in 1..Len(StatColumns) : StatColumns[k] = Columns[k + 1]
  /\ (pc = "done" /\ Errors = <<>>) => Len(StatColumns) = 8
  /\ \A i \in 1..Len(stdout) :
       stdout[i].kind = "Stat" =>
         LET r == stdout[i].val
             col == file.col[r.col]
             n == Len(col) IN
         /\ n > 0
         /\ \A j \in 1..n : r.min <= col[j] /\ col[j] <= r.max
         /\ \E j \in 1..n : r.min = col[j]
         /\ \E j \in 1..n : r.max = col[j]
         /\ 2 * Abs(r.avg * n - ColSum(col)) <= n
         /\ r.min <= r.avg /\ r.avg <= r.max

C7_Witness ==
  /\ pc = "done"
  /\ Len(StatColumns) = 8
  /\ file.n = 3
  /\ stdout[StatOf("GyroX")].val = [col |-> "GyroX", min |-> -2501, max |-> 15, avg |-> -829]
  /\ stdout[StatOf("Pitch")].val.max = 123

DurationPrinted == stdout[CHOOSE i \in 1..Len(stdout) : stdout[i].kind = "Duration"].val

RatePrinted == stdout[CHOOSE i \in 1..Len(stdout) : stdout[i].kind = "SampleRate"].val

\* the dataset of section 8: three rows, Sample 0, 1, 2 and acceleration (0, 0, 1 g)
FixedDataset ==
  /\ file.kind = "table"
  /\ DOMAIN file.col = ColumnSet
  /\ file.col["Sample"] = <<0, 1, 2>>
  /\ file.col["AccelX"] = <<0, 0, 0>>
  /\ file.col["AccelY"] = <<0, 0, 0>>
  /\ file.col["AccelZ"] = <<1000, 1000, 1000>>

\* C8: the duration printed is the time of the last row, 0.1 s times the last
\* Sample; for the fixed dataset the magnitude is 1 g in every row and the
\* duration printed is 0.2 s.
C8_Duration ==
  /\ Printed("Duration") =>
       /\ file.n > 0
       /\ DurationPrinted = file.col["Sample"][file.n]
       /\ DurationPrinted * 100 = time.val[Len(time.val)]
  /\ (FixedDataset /\ accel_magnitude # None) => accel_magnitude.val = <<1000, 1000, 1000>>
  /\ (FixedDataset /\ Printed("Duration")) => DurationPrinted = 2

C8_Witness ==
  /\ FixedDataset
  /\ Printed("Duration")
  /\ DurationPrinted = 2
  /\ accel_magnitude.val = <<1000, 1000, 1000>>

\* C9: for N >= 2 rows with Sample = 0, 1, .., N-1 the sample rate printed is
\* 10.0 Hz whatever N is.
C9_SampleRate ==
  (/\ Printed("SampleRate")
   /\ file.n >= 2
   /\ \A i \in 1..file.n : file.col["Sample"][i] = i - 1)
    => (~RatePrinted.inf /\ RatePrinted.tenths = 100)

\* C10: a run that ends in an error branch writes no image and prints no
\* 'Plot saved'; the image is written only when every statistic was printed
\* and nothing failed.
C10_NoImageOnError ==
  /\ (exc # None \/ Errors # <<>>) => (png = None /\ ~Printed("PlotSaved"))
  /\ png # None => (Errors = <<>> /\ exc = None /\ AllStatsPrinted)
  /\ Printed("PlotSaved") <=> png # None
  /\ (pc = "done" /\ png = None) => Len(Errors) = 1

C10_Witness ==
  /\ pc = "done"
  /\ file.kind = "table"
  /\ file.n = 0
  /\ \A k \in 1..4 : Drawn(k)
  /\ Printed("ErrGeneric")
  /\ png = None
====
